---- MODULE Spec2Model ----
(***************************************************************************)
(* Model of dask/bag/avro.py: the header decoder (read_long, read_bytes,   *)
(* read_header) and the byte-range reader (read_avro, open_head,           *)
(* read_chunk).  Bytes are integers 0..255, a byte string is a sequence of *)
(* bytes, and a file object is a byte string with a position.              *)
(***************************************************************************)
EXTENDS Integers, Sequences, FiniteSets, TLC

VARIABLES
    pc,         \* read_avro: "heads", "planned" or "failed"
    files,      \* path -> the bytes stored under the path
    blocksize,  \* read_avro's blocksize argument (not None)
    heads,      \* path -> what the open_head task of the path returned
    headReads,  \* path -> number of read_header calls made on the path
    tasks,      \* the delayed read_chunk calls, in the order of `out`
    fo,         \* decoder harness: the byte source
    kind,       \* decoder harness: the kind of file object
    num,        \* decoder harness: the integer that was encoded into fo
    call,       \* decoder harness: the function that was called last
    ret         \* decoder harness: what the call returned or raised

vars == <<pc, files, blocksize, heads, headReads, tasks, fo, kind, num, call, ret>>
pipeVars == <<pc, files, blocksize, heads, headReads, tasks>>
harnessVars == <<fo, kind, num, call, ret>>

----------------------------------------------------------------------------
(* Constants of the program. *)

MAGIC == <<79, 98, 106, 1>>        \* b'Obj\x01'
SYNC_SIZE == 16

(* Bounds of the model. *)
LongBits == 29      \* encoded integers lie in -2^(LongBits-1) .. 2^(LongBits-1)-1
Dense == 70         \* integers this close to 0 and to the ends of the range
MaxBlocks == 2      \* blocks per file
MaxWindows == 8     \* windows planned over all files of one run

----------------------------------------------------------------------------
(* Integer and byte-string helpers. *)

Min(a, b) == IF a < b THEN a ELSE b
Max(a, b) == IF a > b THEN a ELSE b

RECURSIVE Pow2(_)
Pow2(k) == IF k = 0 THEN 1 ELSE 2 * Pow2(k - 1)

(* Python's bitwise operators on unbounded two's-complement integers:      *)
(* \div and % floor, so the recursion ends in 0 or -1 on both sides.       *)
RECURSIVE BitAnd(_, _)
BitAnd(a, b) ==
    IF a = 0 \/ b = 0 THEN 0
    ELSE IF a = -1 THEN b
    ELSE IF b = -1 THEN a
    ELSE 2 * BitAnd(a \div 2, b \div 2) + ((a % 2) * (b % 2))

RECURSIVE BitOr(_, _)
BitOr(a, b) ==
    IF a = 0 THEN b
    ELSE IF b = 0 THEN a
    ELSE IF a = -1 \/ b = -1 THEN -1
    ELSE 2 * BitOr(a \div 2, b \div 2) + Max(a % 2, b % 2)

RECURSIVE BitXor(_, _)
BitXor(a, b) ==
    IF a = 0 THEN b
    ELSE IF b = 0 THEN a
    ELSE IF a = -1 THEN -b - 1
    ELSE IF b = -1 THEN -a - 1
    ELSE 2 * BitXor(a \div 2, b \div 2) + (((a % 2) + (b % 2)) % 2)

ShiftLeft(a, k) == a * Pow2(k)
ShiftRight(a, k) == a \div Pow2(k)

StartsWith(s, p) == Len(s) >= Len(p) /\ SubSeq(s, 1, Len(p)) = p
EndsWith(s, p) == Len(s) >= Len(p) /\ SubSeq(s, Len(s) - Len(p) + 1, Len(s)) = p
Drop(s, n) == SubSeq(s, n + 1, Len(s))

----------------------------------------------------------------------------
(* File objects.  fo.read(n) at position pos: the bytes and the new        *)
(* position.  A short read is not an error.  A negative n reads to the end *)
(* of the file on io.BytesIO; on a buffered binary file only -1 does, and  *)
(* any other negative n raises ValueError.                                 *)

Kinds == {"BytesIO", "BufferedReader"}

Ok(val, pos) == [ok |-> TRUE, err |-> "", val |-> val, pos |-> pos]
Raise(err, pos) == [ok |-> FALSE, err |-> err, val |-> <<>>, pos |-> pos]

read(data, k, pos, n) ==
    IF n >= 0
    THEN LET end == Min(Len(data), pos + n)
         IN  Ok(SubSeq(data, pos + 1, end), Max(pos, end))
    ELSE IF n = -1 \/ k = "BytesIO"
    THEN Ok(SubSeq(data, pos + 1, Len(data)), Max(pos, Len(data)))
    ELSE Raise("ValueError", pos)

----------------------------------------------------------------------------
(* read_long: variable-length, zig-zag encoding. *)

(* A decoder that drops the sign: the shift without the exclusive or. *)
zigzag_shift_only(n) == ShiftRight(n, 1)

zigzag_decode(n) == BitXor(ShiftRight(n, 1), -BitAnd(n, 1))

RECURSIVE read_long_loop(_, _, _, _, _)
read_long_loop(data, pos, b, n, shift) ==
    IF BitAnd(b, 128) = 0
    THEN [ok |-> TRUE, err |-> "", val |-> zigzag_decode(n), pos |-> pos]
    ELSE IF pos >= Len(data)
    THEN [ok |-> FALSE, err |-> "TypeError", val |-> 0, pos |-> pos]  \* ord(b'')
    ELSE LET b2 == data[pos + 1]
         IN  read_long_loop(data, pos + 1, b2,
                            BitOr(n, ShiftLeft(BitAnd(b2, 127), shift)), shift + 7)

read_long(data, pos) ==
    IF pos >= Len(data)
    THEN [ok |-> FALSE, err |-> "TypeError", val |-> 0, pos |-> pos]  \* ord(b'')
    ELSE LET b == data[pos + 1]
         IN  read_long_loop(data, pos + 1, b, BitAnd(b, 127), 7)

(* read_bytes: a long followed by that many bytes of data.  `size` is the  *)
(* decoded long, kept beside the value that fo.read(size) returned.        *)
read_bytes(data, k, pos) ==
    LET size == read_long(data, pos)
    IN  IF ~size.ok
        THEN [ok |-> FALSE, err |-> size.err, val |-> <<>>, pos |-> size.pos, size |-> 0]
        ELSE LET r == read(data, k, size.pos, size.val)
             IN  [ok |-> r.ok, err |-> r.err, val |-> r.val, pos |-> r.pos,
                  size |-> size.val]

----------------------------------------------------------------------------
(* read_header.  The result carries the dictionary the code returns (meta, *)
(* sync, header_size, head_bytes) and, for the record, what the call did   *)
(* to the stream: pos is the position of fo when the call returned or      *)
(* raised, longs the number of read_long calls made, and pairs the (key,   *)
(* value) results of the read_bytes calls of lines 48-49, in order.        *)

HeaderRaise(err, pos, longs, pairs) ==
    [ok |-> FALSE, err |-> err, meta |-> {}, sync |-> <<>>, header_size |-> 0,
     head_bytes |-> <<>>, pos |-> pos, longs |-> longs, pairs |-> pairs]

(* Lines 50-54: the sync marker, the header's size, the header's bytes. *)
read_header_tail(data, k, pos, meta, longs, pairs) ==
    LET sync == read(data, k, pos, SYNC_SIZE)
        header_size == sync.pos                          \* fo.tell()
        head_bytes == read(data, k, 0, header_size)      \* fo.seek(0); fo.read(..)
    IN  [ok |-> TRUE, err |-> "", meta |-> meta, sync |-> sync.val,
         header_size |-> header_size, head_bytes |-> head_bytes.val,
         pos |-> head_bytes.pos, longs |-> longs, pairs |-> pairs]

(* A loop body that keeps the pair instead: the last value of a key wins. *)
meta_store(meta, key, value) ==
    {kv \in meta : kv[1] # key} \cup {<<key, value>>}

(* Lines 46-49: what the loop body does with a key and its value.  The     *)
(* code ignores them: meta stays as it is.                                 *)
meta_insert(meta, key, value) == meta

(* Lines 42-49.  left is the number of iterations the for loop still has   *)
(* to make; range(n_keys) is empty for a negative n_keys.                  *)
RECURSIVE read_header_loop(_, _, _, _, _, _, _)
read_header_loop(data, k, pos, left, meta, longs, pairs) ==
    IF left = 0
    THEN LET n_keys == read_long(data, pos)
         IN  IF ~n_keys.ok
             THEN HeaderRaise(n_keys.err, n_keys.pos, longs + 1, pairs)
             ELSE IF n_keys.val = 0
             THEN read_header_tail(data, k, n_keys.pos, meta, longs + 1, pairs)
             ELSE read_header_loop(data, k, n_keys.pos, Max(n_keys.val, 0), meta,
                                   longs + 1, pairs)
    ELSE LET key == read_bytes(data, k, pos)
         IN  IF ~key.ok
             THEN HeaderRaise(key.err, key.pos, longs + 1, pairs)
             ELSE LET value == read_bytes(data, k, key.pos)
                  IN  IF ~value.ok
                      THEN HeaderRaise(value.err, value.pos, longs + 2, pairs)
                      ELSE read_header_loop(data, k, value.pos, left - 1,
                                            meta_insert(meta, key.val, value.val),
                                            longs + 2,
                                            Append(pairs, <<key.val, value.val>>))

(* A reader that does not look at the magic bytes. *)
magic_unchecked(data, k) == TRUE

(* Line 39: the assertion on the magic bytes. *)
magic_ok(data, k) == read(data, k, 0, Len(MAGIC)).val = MAGIC

read_header(data, k) ==
    IF ~magic_ok(data, k)
    THEN HeaderRaise("AssertionError", read(data, k, 0, Len(MAGIC)).pos, 0, <<>>)
    ELSE read_header_loop(data, k, Len(MAGIC), 0, {}, 0, <<>>)

----------------------------------------------------------------------------
(* The writer's side of read_long: zig-zag, then base-128 groups, low      *)
(* group first, the top bit set on every byte but the last.                *)

zigzag_encode(n) == IF n >= 0 THEN 2 * n ELSE -2 * n - 1

RECURSIVE varint(_)
varint(z) ==
    IF z < 128 THEN <<z>>
    ELSE <<(z % 128) + 128>> \o varint(z \div 128)

write_long(n) == varint(zigzag_encode(n))

write_bytes(b) == write_long(Len(b)) \o b

----------------------------------------------------------------------------
(* Inputs: container headers, and byte sources derived from them. *)

RECURSIVE Concat(_)
Concat(ss) == IF ss = <<>> THEN <<>> ELSE Head(ss) \o Concat(Tail(ss))

Prefixes(s) == {SubSeq(s, 1, n) : n \in 0..Len(s)}

SyncToken == [i \in 1..SYNC_SIZE |-> 199 + i]

KeyA == <<97>>
KeyB == <<98>>

(* A metadata map as the format chains it: a sequence of blocks, each a    *)
(* sequence of (key, value) pairs.                                         *)
MetaChoices ==
    { <<>>,
      << <<(<<KeyA, <<1>>>>)>> >>,
      << <<(<<KeyA, <<1>>>>), (<<KeyB, <<2, 3>>>>)>> >>,
      << <<(<<KeyA, <<1>>>>), (<<KeyA, <<2>>>>)>> >>,
      << <<(<<KeyA, <<1>>>>)>>, <<(<<KeyB, <<>>>>), (<<KeyA, <<3>>>>)>> >> }

EncodePair(kv) == write_bytes(kv[1]) \o write_bytes(kv[2])
EncodeMetaBlock(blk) ==
    write_long(Len(blk)) \o Concat([i \in 1..Len(blk) |-> EncodePair(blk[i])])
EncodeMeta(m) == Concat([i \in 1..Len(m) |-> EncodeMetaBlock(m[i])]) \o write_long(0)

HeaderOf(m) == MAGIC \o EncodeMeta(m) \o SyncToken

(* Headers no writer produces but any file may hold: a negative count, a   *)
(* negative length, a length beyond the end of the file.                   *)
OddHeaders ==
    { MAGIC \o <<1>> \o <<0>> \o SyncToken,             \* n_keys = -1, then 0
      MAGIC \o <<2, 1, 97, 2, 5, 0>> \o SyncToken,      \* len(key) = -1
      MAGIC \o <<2, 2, 97, 3, 5, 0>> \o SyncToken,      \* len(value) = -2
      MAGIC \o <<2, 2, 97, 60, 5, 0>> \o SyncToken }    \* len(value) = 30

BadMagics ==
    { <<79, 98, 106, 2>>, <<79, 98, 106>>, <<80, 98, 106, 1>>, <<1, 106, 98, 79>> }

HeaderSources ==
    UNION {Prefixes(HeaderOf(m) \o <<2, 2, 7>>) : m \in MetaChoices}
    \cup UNION {Prefixes(h) : h \in OddHeaders}
    \cup {b \o Drop(HeaderOf(m), Len(b)) : b \in BadMagics, m \in MetaChoices}
    \cup {b \o <<0>> : b \in BadMagics}

FramedSources ==
    {write_long(n) \o d : n \in -3..4, d \in Prefixes(<<97, 98, 99>>)}

Sources == HeaderSources \cup FramedSources

MinLong == -Pow2(LongBits - 1)
MaxLong == Pow2(LongBits - 1) - 1

(* Where the encoded length changes: |n| near 2^(7j-1). *)
Steps == {Pow2(7 * j - 1) : j \in 1..((LongBits - 1) \div 7)}

Longs ==
    {n \in (-Dense..Dense) \cup (MinLong..(MinLong + Dense))
           \cup ((MaxLong - Dense)..MaxLong)
           \cup UNION {(s - 2)..(s + 2) : s \in Steps}
           \cup UNION {(-s - 2)..(-s + 2) : s \in Steps} :
        MinLong <= n /\ n <= MaxLong}

Trailers == {<<>>, <<3>>, <<255, 1>>}

NoRet == [ok |-> FALSE, err |-> "not called", pos |-> 0]

----------------------------------------------------------------------------
(* The decoder on its own: each function of lines 8-54 applied to a byte   *)
(* source, or to the encoding of an integer.                               *)

PipeIdle ==
    /\ pc = "idle" /\ files = <<>> /\ blocksize = 1
    /\ heads = <<>> /\ headReads = <<>> /\ tasks = <<>>

HarnessIdle ==
    /\ fo = <<>> /\ kind = "BytesIO" /\ num = {} /\ call = <<>> /\ ret = NoRet

InitDecode ==
    /\ PipeIdle
    /\ kind \in Kinds
    /\ call = <<>>
    /\ ret = NoRet
    /\ \/ num = {} /\ fo \in Sources
       \/ fo = <<>> /\ \E n \in Longs : num = {n}

WriteLong ==
    /\ call = <<>>
    /\ \E n \in num, t \in Trailers : fo' = write_long(n) \o t
    /\ call' = <<"write_long">>
    /\ UNCHANGED <<kind, num, ret>>
    /\ UNCHANGED pipeVars

CallReadLong ==
    /\ \/ call = <<"write_long">>
       \/ call = <<>> /\ num = {}
    /\ ret' = read_long(fo, 0)
    /\ call' = Append(call, "read_long")
    /\ UNCHANGED <<fo, kind, num>>
    /\ UNCHANGED pipeVars

CallReadBytes ==
    /\ call = <<>> /\ num = {}
    /\ ret' = read_bytes(fo, kind, 0)
    /\ call' = <<"read_bytes">>
    /\ UNCHANGED <<fo, kind, num>>
    /\ UNCHANGED pipeVars

CallReadHeader ==
    /\ call = <<>> /\ num = {}
    /\ ret' = read_header(fo, kind)
    /\ call' = <<"read_header">>
    /\ UNCHANGED <<fo, kind, num>>
    /\ UNCHANGED pipeVars

NextDecode == WriteLong \/ CallReadLong \/ CallReadBytes \/ CallReadHeader

SpecDecode == InitDecode /\ [][NextDecode]_vars

----------------------------------------------------------------------------
(* Properties of the decoder, checked under SpecDecode. *)

HeaderCalled == call = <<"read_header">>

(* C5: read_header on a source whose first 4 bytes are not the magic       *)
(* marker fails with the assertion error on the magic bytes, and has then  *)
(* consumed at most the 4 magic bytes: no long, no key or value and no     *)
(* sync marker has been read.                                              *)
C5_BadMagicFirst ==
    (HeaderCalled /\ ~StartsWith(fo, MAGIC)) =>
        /\ ~ret.ok
        /\ ret.err = "AssertionError"
        /\ ret.pos <= Len(MAGIC)
        /\ ret.pos = Min(Len(fo), Len(MAGIC))
        /\ ret.longs = 0
        /\ ret.pairs = <<>>
        /\ ret.sync = <<>>
        /\ ret.head_bytes = <<>>

(* A source that differs from a complete header in its magic bytes only. *)
C5_Witness ==
    /\ HeaderCalled
    /\ ~StartsWith(fo, MAGIC)
    /\ \E m \in MetaChoices : Len(m) = 2 /\ Drop(fo, Len(MAGIC)) = Drop(HeaderOf(m), Len(MAGIC))
    /\ ret.err = "AssertionError"
    /\ ret.pos = Len(MAGIC)

(* C6: encoding an integer of the range and decoding it with read_long     *)
(* gives the integer back, and read_long consumes exactly the encoded      *)
(* bytes: it stops on the first byte whose top bit is clear.               *)
C6_RoundTrip ==
    call = <<"write_long", "read_long">> =>
        \A n \in num :
            /\ ret.ok
            /\ ret.val = n
            /\ ret.pos = Len(write_long(n))
            /\ ret.pos <= Len(fo)
            /\ fo[ret.pos] < 128
            /\ \A i \in 1..(ret.pos - 1) : fo[i] >= 128

(* The smallest integer of the range, decoded from a source that goes on   *)
(* after the encoding.                                                     *)
C6_Witness ==
    /\ call = <<"write_long", "read_long">>
    /\ num = {MinLong}
    /\ ret.ok /\ ret.val = MinLong
    /\ ret.pos > 1
    /\ Len(fo) > ret.pos

(* The mapping the format describes: each key with its last value. *)
LastWins(pairs) ==
    {pairs[i] : i \in {j \in 1..Len(pairs) :
                          \A l \in (j + 1)..Len(pairs) : pairs[l][1] # pairs[j][1]}}

FlatPairs(m) == Concat(m)

(* C7, as claimed: after read_header succeeds the returned metadata        *)
(* mapping holds exactly the keys of the header's metadata blocks, each    *)
(* with the value of its last occurrence.                                  *)
C7_MetaAsClaimed ==
    (HeaderCalled /\ ret.ok) => ret.meta = LastWins(ret.pairs)

(* C7, amended: after read_header succeeds the returned metadata mapping   *)
(* is empty; every key and value of every count-then-entries block up to   *)
(* the zero count has been read from the stream, in order, and dropped.    *)
C7_MetaEmpty ==
    HeaderCalled =>
        /\ ret.ok => ret.meta = {}
        /\ \A m \in MetaChoices :
               StartsWith(fo, HeaderOf(m)) =>
                   /\ ret.ok
                   /\ ret.meta = {}
                   /\ ret.pairs = FlatPairs(m)
                   /\ ret.header_size = Len(HeaderOf(m))

(* Two metadata blocks, a key that occurs twice. *)
C7_Witness ==
    /\ HeaderCalled
    /\ ret.ok
    /\ Len(ret.pairs) = 3
    /\ ret.pairs[1][1] = ret.pairs[3][1]
    /\ ret.pairs[1][2] # ret.pairs[3][2]
    /\ ret.meta = {}

(* C8: whenever read_header returns a header, sync is exactly 16 bytes,    *)
(* head_bytes starts with the magic marker, ends with sync and is          *)
(* header_size bytes long; a source that ends before the 16th sync byte    *)
(* yields no header.                                                       *)
C8_HeaderWhole ==
    (HeaderCalled /\ ret.ok) =>
        /\ Len(ret.sync) = SYNC_SIZE
        /\ StartsWith(ret.head_bytes, MAGIC)
        /\ EndsWith(ret.head_bytes, ret.sync)
        /\ Len(ret.head_bytes) = ret.header_size

(* C9: read_bytes never returns a byte string whose length differs from    *)
(* the length it decoded: a negative length fails with NegativeLength, a   *)
(* length beyond the end of the source with UnexpectedEndOfStream, and no  *)
(* data is read as the value in either case.                               *)
C9_FramedExact ==
    (call = <<"read_bytes">> /\ read_long(fo, 0).ok) =>
        LET n == read_long(fo, 0).val
            remaining == Len(fo) - read_long(fo, 0).pos
        IN  /\ ret.ok => Len(ret.val) = n
            /\ n < 0 => (~ret.ok /\ ret.err = "NegativeLength" /\ ret.val = <<>>)
            /\ (n >= 0 /\ remaining < n) =>
                   (~ret.ok /\ ret.err = "UnexpectedEndOfStream" /\ ret.val = <<>>)

----------------------------------------------------------------------------
(* The storage layer, as read_avro uses it (dask.bytes.core).              *)

(* logical_size(fs, path, compression): the size of the file in bytes. *)
logical_size(data) == Len(data)

(* Whether the delimiter occurs in data at byte offset q (from 0). *)
OccursAt(data, delimiter, q) ==
    /\ q >= 0
    /\ q + Len(delimiter) <= Len(data)
    /\ SubSeq(data, q + 1, q + Len(delimiter)) = delimiter

(* The position just after the first occurrence of the delimiter that      *)
(* begins at or after pos; the end of the file when there is none.         *)
seek_delimiter(data, delimiter, pos) ==
    LET found == {q \in pos..Len(data) : OccursAt(data, delimiter, q)}
    IN  IF found = {} THEN Max(pos, Len(data))
        ELSE (CHOOSE q \in found : \A r \in found : q <= r) + Len(delimiter)

(* read_block(f, offset, length, delimiter): the bytes from just after the *)
(* first delimiter at or after offset (from 0 when offset is 0) to just    *)
(* after the first delimiter at or after offset + length.                  *)
read_block(data, offset, length, delimiter) ==
    LET start == IF offset = 0 THEN 0 ELSE seek_delimiter(data, delimiter, offset)
        end == seek_delimiter(data, delimiter, offset + length)
    IN  SubSeq(data, start + 1, Min(end, Len(data)))

(* The record decoder (fastavro.iter_avro) on a byte stream: the header,   *)
(* then blocks up to the end of the stream, each ended by the header's     *)
(* sync marker.  A block is opaque here: the decoder's output is the       *)
(* sequence of block bodies.                                               *)
RECURSIVE split_blocks(_, _)
split_blocks(bytes, sync) ==
    IF bytes = <<>> THEN [ok |-> TRUE, blocks |-> <<>>]
    ELSE LET end == seek_delimiter(bytes, sync, 0)
         IN  IF Len(sync) = 0 \/ ~OccursAt(bytes, sync, end - Len(sync))
             THEN [ok |-> FALSE, blocks |-> <<>>]
             ELSE LET rest == split_blocks(Drop(bytes, end), sync)
                  IN  [ok |-> rest.ok,
                       blocks |-> <<SubSeq(bytes, 1, end - Len(sync))>> \o rest.blocks]

iter_avro(bytes) ==
    LET h == read_header(bytes, "BytesIO")
    IN  IF ~h.ok \/ Len(h.sync) # SYNC_SIZE THEN [ok |-> FALSE, blocks |-> <<>>]
        ELSE split_blocks(Drop(bytes, h.header_size), h.sync)

----------------------------------------------------------------------------
(* open_head, the window plan of read_avro, and read_chunk.                *)

open_head(data, k) == [done |-> TRUE, head |-> read_header(data, k), size |-> logical_size(data)]

NoHead == [done |-> FALSE, head |-> HeaderRaise("", 0, 0, <<>>), size |-> 0]

(* A plan whose stride is one byte too long: range(0, size, blocksize + 1). *)
offsets_stride(size, bs) == [i \in 1..((size + bs) \div (bs + 1)) |-> (i - 1) * (bs + 1)]

(* A plan that leaves the first window out: range(blocksize, size, blocksize). *)
offsets_skip_first(size, bs) == [i \in 1..(((size + bs - 1) \div bs) - 1) |-> i * bs]

(* Line 109: list(range(0, size, blocksize)). *)
offsets(size, bs) == [i \in 1..((size + bs - 1) \div bs) |-> (i - 1) * bs]

(* Line 110: [blocksize] * len(off). *)
lengths(size, bs) == [i \in 1..Len(offsets(size, bs)) |-> bs]

(* A test that leaves an empty chunk as it is. *)
needs_head_nonempty(chunk) == chunk # <<>> /\ ~StartsWith(chunk, MAGIC)

(* Line 140: whether the header's bytes go in front of the chunk. *)
needs_head(chunk) == ~StartsWith(chunk, MAGIC)

(* Lines 137-143.  located is what read_block returned, chunk the bytes    *)
(* handed to the decoder, rows what the decoder made of them.              *)
read_chunk(data, off, l, head) ==
    LET located == read_block(data, off, l, head.sync)
        chunk == IF needs_head(located) THEN head.head_bytes \o located ELSE located
    IN  [located |-> located, chunk |-> chunk, rows |-> iter_avro(chunk)]

NoResult == [located |-> <<>>, chunk |-> <<>>, rows |-> [ok |-> FALSE, blocks |-> <<>>]]

(* Tasks chained one after the other. *)
task_deps_chain(i) == IF i > 1 THEN {i - 1} ELSE {}

(* Lines 121-122: the arguments of a delayed read_chunk call are the open  *)
(* file, two integers and the header: none of them is another task.        *)
task_deps(i) == {}

(* Lines 114-123: one delayed read_chunk per window, file after file. *)
file_tasks(path, hd) ==
    LET off == offsets(hd.size, blocksize)
        len == lengths(hd.size, blocksize)
    IN  [i \in 1..Len(off) |->
            [path |-> path, off |-> off[i], l |-> len[i], head |-> hd.head,
             done |-> FALSE, res |-> NoResult]]

all_tasks(hds) == Concat([p \in 1..Len(hds) |-> file_tasks(p, hds[p])])

----------------------------------------------------------------------------
(* Files for read_avro: a header and up to MaxBlocks blocks, each ended by *)
(* the header's sync marker.  A block is an opaque byte string; nothing in *)
(* read_avro or read_chunk looks inside one, so a block may begin with any *)
(* bytes, the 4 bytes of MAGIC among them.                                 *)

SyncToken2 == [i \in 1..SYNC_SIZE |-> 230 + i]

BodyShort == <<2, 2, 7>>
BodyLong == <<4, 18, 11, 12, 13, 14, 15, 16, 17, 18, 19>>
BodyMagic == MAGIC \o <<0>>
Bodies == {BodyShort, BodyLong, BodyMagic}

HeadA == [bytes |-> MAGIC \o EncodeMeta(<<>>) \o SyncToken, sync |-> SyncToken]
HeadB == [bytes |-> MAGIC \o EncodeMeta(<< <<(<<KeyA, <<1>>>>)>> >>) \o SyncToken2,
          sync |-> SyncToken2]

BlockSeqs(n) == UNION {[1..k -> Bodies] : k \in 0..n}

FileOf(h, bodies) ==
    h.bytes \o Concat([i \in 1..Len(bodies) |-> bodies[i] \o h.sync])

BadFile == <<80, 98, 106, 1, 0>> \o SyncToken

BlockSizes == {5, 8, 16, 30}

NumWindows(data, bs) == Len(offsets(logical_size(data), bs))

(* The files of one run: one or two paths, MaxBlocks blocks in all. *)
Runs ==
    {<<FileOf(h, b)>> : h \in {HeadA, HeadB}, b \in BlockSeqs(MaxBlocks)}
    \cup {<<BadFile>>}
    \cup UNION {{<<FileOf(HeadA, b1), FileOf(HeadB, b2)>>,
                 <<FileOf(HeadB, b1), BadFile>>} :
                   b1 \in BlockSeqs(1), b2 \in BlockSeqs(MaxBlocks - 1)}

----------------------------------------------------------------------------
(* read_avro with a blocksize: the open_head tasks are computed, in any    *)
(* order; then the windows are planned and one read_chunk task is made per *)
(* window; the tasks run when the bag is computed, in any order.           *)

Init ==
    /\ fo = <<>> /\ kind = "BufferedReader" /\ num = {} /\ call = <<>> /\ ret = NoRet
    /\ pc = "heads"
    /\ blocksize \in BlockSizes
    /\ files \in Runs
    /\ LET total == [p \in 1..Len(files) |-> NumWindows(files[p], blocksize)]
       IN  (total[1] + (IF Len(files) > 1 THEN total[2] ELSE 0)) <= MaxWindows
    /\ heads = [p \in 1..Len(files) |-> NoHead]
    /\ headReads = [p \in 1..Len(files) |-> 0]
    /\ tasks = <<>>

Paths == 1..Len(files)

(* Line 102: one open_head task. *)
OpenHead(p) ==
    /\ pc = "heads"
    /\ ~heads[p].done
    /\ heads' = [heads EXCEPT ![p] = open_head(files[p], kind)]
    /\ headReads' = [headReads EXCEPT ![p] = @ + 1]
    /\ UNCHANGED <<pc, files, blocksize, tasks>>
    /\ UNCHANGED harnessVars

(* Line 102: compute() raises what an open_head task raised. *)
HeadsFail ==
    /\ pc = "heads"
    /\ \E p \in Paths : heads[p].done /\ ~heads[p].head.ok
    /\ pc' = "failed"
    /\ UNCHANGED <<files, blocksize, heads, headReads, tasks>>
    /\ UNCHANGED harnessVars

(* Lines 103-125: compute() has returned every head; plan the windows. *)
Plan ==
    /\ pc = "heads"
    /\ \A p \in Paths : heads[p].done /\ heads[p].head.ok
    /\ tasks' = all_tasks(heads)
    /\ pc' = "planned"
    /\ UNCHANGED <<files, blocksize, heads, headReads>>
    /\ UNCHANGED harnessVars

task_ready(i) == \A j \in task_deps(i) : j \in 1..Len(tasks) => tasks[j].done

(* Whether the scheduler may run task i now. *)
runnable(i) == pc = "planned" /\ ~tasks[i].done /\ task_ready(i)

(* One read_chunk task, run by the scheduler. *)
ReadChunk(i) ==
    /\ runnable(i)
    /\ tasks' = [tasks EXCEPT ![i].done = TRUE,
                              ![i].res = read_chunk(files[tasks[i].path], tasks[i].off,
                                                    tasks[i].l, tasks[i].head)]
    /\ UNCHANGED <<pc, files, blocksize, heads, headReads>>
    /\ UNCHANGED harnessVars

Next ==
    \/ \E p \in Paths : OpenHead(p)
    \/ HeadsFail
    \/ Plan
    \/ \E i \in 1..Len(tasks) : ReadChunk(i)

Spec == Init /\ [][Next]_vars

----------------------------------------------------------------------------
(* Properties of read_avro, checked under Spec. *)

Planned == pc = "planned"
AllRun == Planned /\ \A i \in 1..Len(tasks) : tasks[i].done

IsPath(t, p) == t.path = p
WindowsOf(p) == SelectSeq(tasks, LAMBDA t : IsPath(t, p))

RECURSIVE SumLengths(_)
SumLengths(w) == IF w = <<>> THEN 0 ELSE Head(w).l + SumLengths(Tail(w))

Contiguous(w) ==
    /\ w # <<>> => w[1].off = 0
    /\ \A i \in 1..(Len(w) - 1) : w[i + 1].off = w[i].off + w[i].l

(* C1, as claimed: the windows planned for a file of size S are            *)
(* contiguous, start at 0, are each at most blocksize long, the last one   *)
(* clipped to S - lastOffset, and their lengths sum to S.                  *)
C1_WindowsAsClaimed ==
    Planned =>
        \A p \in Paths :
            LET w == WindowsOf(p)
                S == Len(files[p])
            IN  /\ Contiguous(w)
                /\ \A i \in 1..Len(w) : w[i].l <= blocksize
                /\ w # <<>> => w[Len(w)].l = S - w[Len(w)].off
                /\ SumLengths(w) = S

(* C1, amended: the windows planned for a file of size S are contiguous,   *)
(* start at 0 and are each exactly blocksize long, the last one too: there *)
(* is one window per multiple of blocksize below S, so the last window     *)
(* begins before S and ends at or after it, and the lengths sum to         *)
(* blocksize * ceil(S / blocksize), which is S or more and less than       *)
(* S + blocksize.  No window is planned for S = 0.                         *)
C1_Windows ==
    /\ \A bs \in BlockSizes : offsets(0, bs) = <<>> /\ lengths(0, bs) = <<>>
    /\ Planned =>
        \A p \in Paths :
            LET w == WindowsOf(p)
                S == Len(files[p])
            IN  /\ Contiguous(w)
                /\ \A i \in 1..Len(w) : w[i].l = blocksize /\ w[i].off = (i - 1) * blocksize
                /\ S > 0 => w # <<>>
                /\ w # <<>> => (w[Len(w)].off < S /\ S <= w[Len(w)].off + w[Len(w)].l)
                /\ SumLengths(w) >= S
                /\ SumLengths(w) < S + blocksize
                /\ SumLengths(w) = blocksize * Len(w)

(* Several windows over a file whose size is no multiple of blocksize. *)
C1_Witness ==
    /\ Planned
    /\ \E p \in Paths :
           /\ Len(WindowsOf(p)) >= 3
           /\ Len(files[p]) % blocksize # 0
           /\ SumLengths(WindowsOf(p)) > Len(files[p])

(* The blocks of a file, as its header's sync marker delimits them. *)
FileBlocks(p) ==
    split_blocks(Drop(files[p], heads[p].head.header_size), heads[p].head.sync)

(* What a window contributes: the located bytes, less the file's own       *)
(* header in the window at offset 0.                                       *)
Payload(t) ==
    IF t.off = 0 THEN Drop(t.res.located, heads[t.path].head.header_size)
    ELSE t.res.located

PayloadBlocks(t) == split_blocks(Payload(t), t.head.sync)

(* C2: when every window of a file has been located and reconstructed,     *)
(* the chunks, in window order, hold each block of the file exactly once   *)
(* and in file order, every block whole.                                   *)
C2_BlocksOnce ==
    AllRun =>
        \A p \in Paths :
            LET w == WindowsOf(p)
            IN  /\ FileBlocks(p).ok
                /\ \A i \in 1..Len(w) :
                       /\ PayloadBlocks(w[i]).ok
                       /\ EndsWith(w[i].res.chunk, w[i].res.located)
                       /\ w[i].off = 0 => StartsWith(w[i].res.located, heads[p].head.head_bytes)
                /\ Concat([i \in 1..Len(w) |-> PayloadBlocks(w[i]).blocks])
                       = FileBlocks(p).blocks
                /\ Concat([i \in 1..Len(w) |-> w[i].res.located]) = files[p]

(* Two blocks that end up in different windows, neither in the first. *)
C2_Witness ==
    /\ AllRun
    /\ \E p \in Paths :
           LET w == WindowsOf(p)
           IN  /\ Len(FileBlocks(p).blocks) = 2
               /\ \E i, j \in 2..Len(w) :
                      /\ i < j
                      /\ Len(PayloadBlocks(w[i]).blocks) = 1
                      /\ Len(PayloadBlocks(w[j]).blocks) = 1

(* Whether a sync marker of the file has a byte in [from, to). *)
SyncTouches(data, sync, from, to) ==
    \E q \in 0..Len(data) :
        OccursAt(data, sync, q) /\ q < to /\ q + Len(sync) > from

InsideOneBlock(t) ==
    /\ t.off > 0
    /\ ~SyncTouches(files[t.path], t.head.sync, t.off, t.off + t.l)

(* C3: a window at an offset above 0 whose range holds no byte of a sync   *)
(* marker gives a chunk that is the header's bytes and nothing else, and   *)
(* its task ends without an error, with no rows.                           *)
C3_EmptyWindow ==
    \A i \in 1..Len(tasks) :
        (tasks[i].done /\ InsideOneBlock(tasks[i])) =>
            /\ tasks[i].res.located = <<>>
            /\ tasks[i].res.chunk = tasks[i].head.head_bytes
            /\ tasks[i].res.rows.ok
            /\ tasks[i].res.rows.blocks = <<>>

(* A window that lies in the body of a block, after the header. *)
C3_Witness ==
    \E i \in 1..Len(tasks) :
        /\ tasks[i].done
        /\ InsideOneBlock(tasks[i])
        /\ tasks[i].off >= tasks[i].head.header_size
        /\ tasks[i].off + tasks[i].l <= Len(files[tasks[i].path])
        /\ tasks[i].res.chunk = tasks[i].head.head_bytes

(* C4: read_chunk hands the located bytes on unchanged exactly for the     *)
(* window at offset 0, and for every window at an offset above 0 hands on  *)
(* the header's bytes followed by the located bytes, whatever the blocks   *)
(* hold.                                                                   *)
C4_PassThroughOnlyFirst ==
    \A i \in 1..Len(tasks) :
        tasks[i].done =>
            /\ (tasks[i].res.chunk = tasks[i].res.located) <=> (tasks[i].off = 0)
            /\ tasks[i].off > 0 =>
                   tasks[i].res.chunk = tasks[i].head.head_bytes \o tasks[i].res.located

(* C10: each file's header is read once, and before any read_chunk task of *)
(* the file exists; every task of the file holds that header's sync marker *)
(* and bytes; no task waits for another task.                              *)
C10_HeadOnceFirst ==
    /\ \A p \in Paths : headReads[p] <= 1
    /\ tasks # <<>> => \A p \in Paths : headReads[p] = 1 /\ heads[p].done /\ heads[p].head.ok
    /\ \A i \in 1..Len(tasks) :
           /\ tasks[i].path \in Paths
           /\ tasks[i].head = heads[tasks[i].path].head
           /\ tasks[i].head.sync = heads[tasks[i].path].head.sync
           /\ tasks[i].head.head_bytes = heads[tasks[i].path].head.head_bytes
           /\ StartsWith(files[tasks[i].path], tasks[i].head.head_bytes)
           /\ (Planned /\ ~tasks[i].done) => runnable(i)
    /\ pc = "failed" => tasks = <<>>

(* Two files with different sync markers; a later window of the second     *)
(* file has run while the first window of the first file has not.          *)
C10_Witness ==
    /\ Planned
    /\ Len(files) = 2
    /\ heads[1].head.sync # heads[2].head.sync
    /\ \E i, j \in 1..Len(tasks) :
           /\ i < j
           /\ tasks[i].path = 1 /\ ~tasks[i].done
           /\ tasks[j].path = 2 /\ tasks[j].off > 0 /\ tasks[j].done

====
